---------------------------- MODULE Spec2Model ----------------------------
(***************************************************************************)
(* Model of task_scheduler.py: a dependency-graph task scheduler.          *)
(*                                                                         *)
(*   parse_input                 field validation + dependency existence   *)
(*   detect_cycles               recursive DFS with visited / rec_stack    *)
(*   calculate_expected_runtime  single pass over the tasks in input order *)
(*   build_command/execute_task  what a worker thread does with one task   *)
(*   validate_mode               parse, detect cycles, expected runtime    *)
(*   run_mode                    the same, then the busy-poll dispatch     *)
(*                               loop over a ThreadPoolExecutor            *)
(*                                                                         *)
(* An input file is modelled after the split of every line into its five   *)
(* fields: a sequence of records (name, duration, dependencies, task_type, *)
(* parameters), where parameters is the set of keys of the parsed          *)
(* dictionary.  Wall-clock values (start_times, actual_durations) are kept *)
(* only as the set of names they are recorded for.                         *)
(***************************************************************************)
EXTENDS Integers, Sequences, FiniteSets, TLC

(***************************************************************************)
(* Bounds of the model.                                                    *)
(***************************************************************************)
MaxTasks == 4        \* run_mode: tasks in an input file
MaxEdges == 3        \* run_mode: dependency entries in an input file
MaxBadParams == 1    \* run_mode: tasks whose parameters lack a needed key
MaxFnTasks == 3      \* validate_mode: tasks in an input file
MaxFnEdges == 3      \* validate_mode: dependency entries in an input file
MaxDur == 2          \* validate_mode: largest declared duration

NamePool == <<"A", "B", "C", "D", "E", "F">>
Name(i) == NamePool[i]
Unknown == "X"       \* a name no line of any input declares
Unknown2 == "Y"      \* another one

\* Python's None; every optional value of the model is a tuple
None == << >>

\* class Task
Task(name, duration, dependencies, task_type, parameters) ==
  [name |-> name, duration |-> duration, dependencies |-> dependencies,
   task_type |-> task_type, parameters |-> parameters]

Range(s) == {s[i] : i \in 1..Len(s)}

Max2(a, b) == IF a >= b THEN a ELSE b

TaskNames(tasks) == {tasks[i].name : i \in 1..Len(tasks)}

\* the dependencies the code looks at: every `for dep ...` is guarded by `if dep`
Deps(task) == {d \in Range(task.dependencies) : d # ""}

(***************************************************************************)
(* parse_input, lines 18-73.  The result is <<tasks, error>>.  A malformed *)
(* line makes the code format a message with the undefined name line_num   *)
(* (the loop variable is line_nuem); the NameError is caught at line 72    *)
(* and turned into an "Error parsing file" result.  A line with a field     *)
(* count other than 5 (29) or a parameter without '=' (57) takes the same  *)
(* path; blank lines are skipped (25) and are left out of the input.       *)
(***************************************************************************)
TaskTypes == {"resolve", "traceroute", "iperf3"}

\* LineMalformed as it would be without the test of name in task_names
LineMalformed_accepts_duplicates(lines, i) ==
  \/ lines[i].name = ""
  \/ lines[i].duration <= 0
  \/ lines[i].task_type \notin TaskTypes

\* lines 33, 38-43 and 49: the field tests of one line
LineMalformed(lines, i) ==
  \/ lines[i].name = ""
  \/ \E j \in 1..(i - 1) : lines[j].name = lines[i].name
  \/ lines[i].duration <= 0
  \/ lines[i].task_type \notin TaskTypes

\* the <<task index, dependency index>> pairs the check of lines 64-67 rejects
UnknownDeps(lines) ==
  UNION {{<<i, k>> : k \in {k \in 1..Len(lines[i].dependencies) :
                              /\ lines[i].dependencies[k] # ""
                              /\ lines[i].dependencies[k] \notin TaskNames(lines)}} :
         i \in 1..Len(lines)}

\* the first of them in task order, then dependency order
FirstUnknownDep(lines) ==
  CHOOSE p \in UnknownDeps(lines) :
    \A q \in UnknownDeps(lines) :
      \/ p[1] < q[1]
      \/ p[1] = q[1] /\ p[2] <= q[2]

\* parse_input as it would be without the loop of lines 64-67
parse_input_without_existence_check(lines) ==
  IF \E i \in 1..Len(lines) : LineMalformed(lines, i)
  THEN <<None, <<"Error parsing file">> >>
  ELSE <<[i \in 1..Len(lines) |->
            Task(lines[i].name, lines[i].duration, lines[i].dependencies,
                 lines[i].task_type, lines[i].parameters)], None>>

parse_input(lines) ==
  IF \E i \in 1..Len(lines) : LineMalformed(lines, i)
  THEN <<None, <<"Error parsing file">> >>
  ELSE IF UnknownDeps(lines) # {}
       THEN LET p == FirstUnknownDep(lines)
            IN <<None, <<"Unknown dependency", lines[p[1]].name,
                         lines[p[1]].dependencies[p[2]]>> >>
       ELSE <<[i \in 1..Len(lines) |->
                 Task(lines[i].name, lines[i].duration, lines[i].dependencies,
                      lines[i].task_type, lines[i].parameters)], None>>

(***************************************************************************)
(* detect_cycles, lines 76-98.  dfs threads the two sets through the       *)
(* recursion as the closure does; ret is "True", "False", or               *)
(* "StopIteration" when next(...) at line 85 finds no task of that name.   *)
(***************************************************************************)
HasTask(tasks, name) == \E i \in 1..Len(tasks) : tasks[i].name = name

\* next(t for t in tasks if t.name == dep), line 85
NextTask(tasks, name) ==
  tasks[CHOOSE i \in 1..Len(tasks) :
          /\ tasks[i].name = name
          /\ \A j \in 1..(i - 1) : tasks[j].name # name]

RECURSIVE dfs(_, _, _), dfs_deps(_, _, _, _)
dfs(tasks, task, st) ==
  dfs_deps(tasks, task, 1,
           [ret |-> "False",
            visited |-> st.visited \cup {task.name},
            rec_stack |-> st.rec_stack \cup {task.name}])

\* the for loop of lines 83-92, from the k-th dependency on
dfs_deps(tasks, task, k, st) ==
  IF k > Len(task.dependencies)
  THEN [st EXCEPT !.ret = "False", !.rec_stack = @ \ {task.name}]
  ELSE LET dep == task.dependencies[k] IN
       IF dep = "" THEN dfs_deps(tasks, task, k + 1, st)
       ELSE IF ~HasTask(tasks, dep) THEN [st EXCEPT !.ret = "StopIteration"]
       ELSE IF dep \notin st.visited
            THEN LET r == dfs(tasks, NextTask(tasks, dep), st)
                 IN IF r.ret = "False"
                    THEN dfs_deps(tasks, task, k + 1, r)
                    ELSE r
       ELSE IF dep \in st.rec_stack THEN [st EXCEPT !.ret = "True"]
       ELSE dfs_deps(tasks, task, k + 1, st)

\* detect_roots as it would be if the traversal started from the first task only
detect_roots_first_only(tasks, i, st) ==
  IF Len(tasks) = 0 THEN None
  ELSE LET r == dfs(tasks, tasks[1], st)
       IN IF r.ret = "True" THEN <<"Dependency cycle detected">> ELSE None

\* the for loop of lines 94-97, from the i-th task on
RECURSIVE detect_roots(_, _, _)
detect_roots(tasks, i, st) ==
  IF i > Len(tasks) THEN None
  ELSE IF tasks[i].name \in st.visited THEN detect_roots(tasks, i + 1, st)
  ELSE LET r == dfs(tasks, tasks[i], st)
       IN IF r.ret = "True" THEN <<"Dependency cycle detected">>
          ELSE IF r.ret = "StopIteration" THEN <<"StopIteration">>
          ELSE detect_roots(tasks, i + 1, r)

detect_cycles(tasks) ==
  detect_roots(tasks, 1, [ret |-> "False", visited |-> {}, rec_stack |-> {}])

(***************************************************************************)
(* calculate_expected_runtime, lines 101-111.  finish_times is a plain     *)
(* dict: reading the entry of a dependency that no earlier iteration has   *)
(* written raises KeyError (line 108).                                     *)
(***************************************************************************)
RECURSIVE max_dep_finish(_, _, _)
\* the for loop of lines 106-108 from the k-th dependency on; -1 is KeyError
max_dep_finish(task, k, finish_times) ==
  IF k > Len(task.dependencies) THEN 0
  ELSE LET dep == task.dependencies[k]
           rest == max_dep_finish(task, k + 1, finish_times)
       IN IF dep = "" THEN rest
          ELSE IF dep \notin DOMAIN finish_times THEN -1
          ELSE IF rest = -1 THEN -1
          ELSE Max2(finish_times[dep], rest)

MaxOf(S) == CHOOSE m \in S : \A x \in S : x <= m

RECURSIVE runtime_loop(_, _, _)
runtime_loop(tasks, i, finish_times) ==
  IF i > Len(tasks)
  THEN [exc |-> None,
        value |-> IF DOMAIN finish_times = {} THEN 0
                  ELSE MaxOf({finish_times[n] : n \in DOMAIN finish_times})]
  ELSE LET m == max_dep_finish(tasks[i], 1, finish_times)
       IN IF m = -1 THEN [exc |-> <<"KeyError">>, value |-> 0]
          ELSE runtime_loop(tasks, i + 1,
                 [n \in DOMAIN finish_times \cup {tasks[i].name} |->
                    IF n = tasks[i].name THEN m + tasks[i].duration
                    ELSE finish_times[n]])

\* calculate_expected_runtime as it would be with a bare max(...) at line 111
calculate_expected_runtime_bare_max(tasks) ==
  IF Len(tasks) = 0 THEN [exc |-> <<"ValueError">>, value |-> 0]
  ELSE runtime_loop(tasks, 1, << >>)

calculate_expected_runtime(tasks) == runtime_loop(tasks, 1, << >>)

(***************************************************************************)
(* Input files.  Line i declares the name Name(i) unless a defect says     *)
(* otherwise; the position of a line and the names its dependency list     *)
(* holds are free, so dependencies may point backwards, forwards, to the   *)
(* line itself, to no line at all, or be empty strings.                    *)
(***************************************************************************)
Line(name, duration, dependencies, task_type, parameters) ==
  [name |-> name, duration |-> duration, dependencies |-> dependencies,
   task_type |-> task_type, parameters |-> parameters]

RECURSIVE SeqsOfLen(_, _)
SeqsOfLen(S, n) ==
  IF n = 0 THEN {<< >>}
  ELSE {Append(s, x) : s \in SeqsOfLen(S, n - 1), x \in S}

\* the first k lines of an n-line file of durations 1 holding at most budget
\* dependency entries, every list any sequence of names of the file (in any
\* order, repeated, the line's own)
RECURSIVE FnLines(_, _, _)
FnLines(k, n, budget) ==
  IF k = 0 THEN {<< >>}
  ELSE UNION {
         {Append(p, Line(Name(k), 1, d, "resolve", {"fqdn"})) :
            p \in FnLines(k - 1, n, budget - l),
            d \in SeqsOfLen({Name(j) : j \in 1..n}, l)} :
         l \in 0..budget}

\* validate_mode inputs: such a file in which at most one line has the
\* duration MaxDur instead, or in which one list has one more entry at its
\* end, a name that is no line or, on a list that is not empty, an empty
\* name (a trailing ';'), or in which one empty list is that of the field
\* ';' instead.  Line 46 splits the field at ';' unless it is empty, so no
\* file gives a list of one empty name.  The last case has two entries that
\* are no line, in one list or in two, in either order.
IsFnInput(f) ==
  \E n \in 0..MaxFnTasks :
    \/ \E p \in FnLines(n, n, MaxFnEdges) :
         \E i \in 0..n :
           f = [k \in 1..n |-> IF k = i THEN [p[k] EXCEPT !.duration = MaxDur]
                               ELSE p[k]]
    \/ \E p \in FnLines(n, n, MaxFnEdges - 1) :
         \E i \in 1..n, b \in {"", Unknown} :
           /\ b = "" => p[i].dependencies # << >>
           /\ f = [p EXCEPT ![i].dependencies = Append(@, b)]
    \/ \E p \in FnLines(n, n, MaxFnEdges - 2) :
         \E i \in 1..n :
           /\ p[i].dependencies = << >>
           /\ f = [p EXCEPT ![i].dependencies = <<"", "">>]
    \/ \E p \in FnLines(n, n, MaxFnEdges - 2) :
         \E i \in 1..n, j \in 1..n :
           \E b \in {<<Unknown, Unknown2>>, <<Unknown2, Unknown>>} :
             f = [[p EXCEPT ![i].dependencies = Append(@, b[1])]
                     EXCEPT ![j].dependencies = Append(@, b[2])]

(***************************************************************************)
(* build_command, lines 114-125, and execute_task, lines 128-148.          *)
(* build_command indexes task.parameters without a default, and            *)
(* execute_task calls it at line 129, before its try block.                *)
(***************************************************************************)
NeededKeys(task) ==
  IF task.task_type = "resolve" THEN {"fqdn"}
  ELSE IF task.task_type = "traceroute" THEN {"count", "endpoint"}
  ELSE IF task.task_type = "iperf3" THEN {"endpoint", "port", "duration"}
  ELSE {}

build_command(task) ==
  IF NeededKeys(task) \subseteq task.parameters THEN "command" ELSE "KeyError"

\* what a call of execute_task can end with: the KeyError of build_command, or
\* a (success, output) pair decided by the external command.  The one failure
\* output stands for stderr of a non-zero exit (136), "No DNS records found"
\* (140), "Task <name> timed out" (143) and "Task <name> error: ..." (146).
execute_task(task) ==
  IF build_command(task) = "KeyError"
  THEN {[exc |-> <<"KeyError">>, success |-> FALSE, output |-> None]}
  ELSE {[exc |-> None, success |-> TRUE, output |-> <<"stdout">>],
        [exc |-> None, success |-> FALSE, output |-> <<"failure of", task.name>>]}

\* run_mode inputs: line k has the k-th task type in turn and duration 1
TypeAt(k) == <<"resolve", "traceroute", "iperf3">>[((k - 1) % 3) + 1]

GoodParams(k) == NeededKeys([task_type |-> TypeAt(k)])

RECURSIVE AscSeq(_, _, _)
\* the names Name(i..n) that are in S, in ascending order
AscSeq(S, i, n) ==
  IF i > n THEN << >>
  ELSE IF Name(i) \in S THEN <<Name(i)>> \o AscSeq(S, i + 1, n)
  ELSE AscSeq(S, i + 1, n)

\* dependency lists of line k that name earlier lines only
BackLists(k, budget) ==
  {AscSeq(S, 1, k - 1) :
     S \in {T \in SUBSET {Name(j) : j \in 1..(k - 1)} : Cardinality(T) <= budget}}

\* the first k lines of a file whose dependencies all point to earlier lines,
\* with at most budget dependency entries and at most bad lines whose
\* parameters are empty
RECURSIVE OrderedLines(_, _, _)
OrderedLines(k, budget, bad) ==
  IF k = 0 THEN {<< >>}
  ELSE UNION {
         {Append(p, Line(Name(k), 1, d, TypeAt(k), GoodParams(k))) :
            p \in OrderedLines(k - 1, budget - Len(d), bad)}
         \cup (IF bad > 0
               THEN {Append(p, Line(Name(k), 1, d, TypeAt(k), {})) :
                       p \in OrderedLines(k - 1, budget - Len(d), bad - 1)}
               ELSE {}) :
         d \in BackLists(k, budget)}

OrderedInputs(tasks_, budget) ==
  UNION {OrderedLines(n, budget, MaxBadParams) : n \in 0..tasks_}

\* such a file with one more entry at the end of the dependency list of line
\* i: the line itself, a later line, or a name that is no line
StrayInputs(tasks_, budget) ==
  UNION {UNION {UNION {{[p EXCEPT ![i].dependencies = Append(@, b)] :
                          b \in {Name(j) : j \in i..n} \cup {Unknown}} :
                       i \in 1..n} :
                p \in OrderedLines(n, budget - 1, 0)} :
         n \in 1..tasks_}

\* a file without dependencies in which line i >= 2 is malformed in one way
Defective(n, i, kind) ==
  [k \in 1..n |->
     IF k # i THEN Line(Name(k), 1, << >>, TypeAt(k), GoodParams(k))
     ELSE IF kind = "name" THEN Line("", 1, << >>, TypeAt(k), GoodParams(k))
     ELSE IF kind = "duplicate"
          THEN Line(Name(k - 1), 1, << >>, TypeAt(k), GoodParams(k))
     ELSE IF kind = "duration" THEN Line(Name(k), 0, << >>, TypeAt(k), GoodParams(k))
     ELSE Line(Name(k), 1, << >>, "ping", GoodParams(k))]

DefectInputs(tasks_) ==
  UNION {{Defective(n, i, kind) :
            i \in 2..n, kind \in {"name", "duplicate", "duration", "task_type"}} :
         n \in 2..tasks_}

RunInputs(tasks_, budget) ==
  OrderedInputs(tasks_, budget) \cup StrayInputs(tasks_, budget)
    \cup DefectInputs(tasks_)

(***************************************************************************)
(* State.  v_* is the frame of validate_mode, the rest is added below.     *)
(***************************************************************************)
\* v_cycle_error_2 is the result of a second call of detect_cycles on v_tasks;
\* v_visited, v_rec_stack and v_root are the two sets and the position of the
\* for loop of lines 94-97 of the call of detect_cycles that is being stepped
VARIABLES v_input, v_pc, v_tasks, v_error, v_cycle_error, v_expected_runtime,
          v_cycle_error_2, v_visited, v_rec_stack, v_root

v_vars == <<v_input, v_pc, v_tasks, v_error, v_cycle_error, v_expected_runtime,
            v_cycle_error_2, v_visited, v_rec_stack, v_root>>

(***************************************************************************)
(* The frame of run_mode.                                                  *)
(*   input            the lines of the file                                *)
(*   pc               where the coordinator is: "idle" (run_mode is not    *)
(*                    called), "start", "loop" (the while                  *)
(*                    test, line 184), "poll" (line 194), "process" (the   *)
(*                    for loop of line 195), "exit" (past the loop),       *)
(*                    "invalid" (returned at 168 or 172), "crashed"        *)
(*                    (exception before the loop), "aborted" (exception    *)
(*                    out of the loop)                                     *)
(*   tasks, error, cycle_error, expected_runtime, completed, running,      *)
(*   outputs, futures, done   the locals of those names; futures is the    *)
(*                    key order of the dict                                *)
(*   start_times, actual_durations   the key sets of those dicts           *)
(*   future_state     per key of futures, whether the call of execute_task *)
(*                    has ended.  What it ended with is read by nobody     *)
(*                    before result() at line 196 and is drawn there.      *)
(*   submits          how often executor.submit was called per task        *)
(***************************************************************************)
VARIABLES input, pc, tasks, error, cycle_error, expected_runtime,
          completed, running, start_times, actual_durations, outputs,
          futures, future_state, done, submits

r_vars == <<input, pc, tasks, error, cycle_error, expected_runtime,
            completed, running, start_times, actual_durations, outputs,
            futures, future_state, done, submits>>

vars == <<v_vars, r_vars>>

ValidateIdle ==
  /\ v_input = << >>
  /\ v_pc = "idle"
  /\ v_tasks = None
  /\ v_error = None
  /\ v_cycle_error = None
  /\ v_expected_runtime = None
  /\ v_cycle_error_2 = None
  /\ v_visited = {}
  /\ v_rec_stack = {}
  /\ v_root = 0

ValidateInit ==
  /\ IsFnInput(v_input)
  /\ v_pc = "parse"
  /\ v_tasks = None
  /\ v_error = None
  /\ v_cycle_error = None
  /\ v_expected_runtime = None
  /\ v_cycle_error_2 = None
  /\ v_visited = {}
  /\ v_rec_stack = {}
  /\ v_root = 0

\* validate_mode, lines 152-155
V_ParseInput ==
  /\ v_pc = "parse"
  /\ LET r == parse_input(v_input)
     IN /\ v_tasks' = r[1]
        /\ v_error' = r[2]
        /\ v_pc' = IF r[2] # None THEN "invalid" ELSE "detect"
  /\ UNCHANGED <<r_vars, v_input, v_cycle_error, v_expected_runtime,
                 v_cycle_error_2, v_visited, v_rec_stack, v_root>>

\* validate_mode, lines 156-159
V_DetectCycles ==
  /\ v_pc = "detect"
  /\ LET c == detect_cycles(v_tasks)
     IN /\ v_cycle_error' = c
        /\ v_pc' = IF c = <<"StopIteration">> THEN "crashed"
                   ELSE IF c # None THEN "invalid" ELSE "runtime"
  /\ UNCHANGED <<r_vars, v_input, v_tasks, v_error, v_expected_runtime,
                 v_cycle_error_2, v_visited, v_rec_stack, v_root>>

\* validate_mode, lines 160-161
V_ExpectedRuntime ==
  /\ v_pc = "runtime"
  /\ LET r == calculate_expected_runtime(v_tasks)
     IN IF r.exc # None
        THEN /\ v_pc' = "crashed"
             /\ v_expected_runtime' = r.exc
        ELSE /\ v_pc' = "valid"
             /\ v_expected_runtime' = r.value
  /\ UNCHANGED <<r_vars, v_input, v_tasks, v_error, v_cycle_error,
                 v_cycle_error_2, v_visited, v_rec_stack, v_root>>

ValidateNext == V_ParseInput \/ V_DetectCycles \/ V_ExpectedRuntime

(***************************************************************************)
(* detect_cycles called twice in succession on the task list parse_input   *)
(* returned, stepped through its body: the creation of visited and         *)
(* rec_stack (lines 77-78), one iteration of the for loop of lines 94-97   *)
(* per step, and the return of line 98.  v_pc is "detect" before the first *)
(* call, "roots" in its loop, "detect again" and "roots again" for the     *)
(* second call, "detected twice" after it.  What a call leaves in the two  *)
(* sets stays in the state until a call writes them.                       *)
(***************************************************************************)
\* D_Enter as it would be if the two sets were created once, outside the
\* function, and shared by its calls
D_Enter_keeps_sets ==
  /\ v_pc \in {"detect", "detect again"}
  /\ v_root' = 1
  /\ v_pc' = IF v_pc = "detect" THEN "roots" ELSE "roots again"
  /\ UNCHANGED <<r_vars, v_input, v_tasks, v_error, v_cycle_error,
                 v_expected_runtime, v_cycle_error_2, v_visited, v_rec_stack>>

\* lines 77-78 and the start of the for loop of line 94
D_Enter ==
  /\ v_pc \in {"detect", "detect again"}
  /\ v_visited' = {}
  /\ v_rec_stack' = {}
  /\ v_root' = 1
  /\ v_pc' = IF v_pc = "detect" THEN "roots" ELSE "roots again"
  /\ UNCHANGED <<r_vars, v_input, v_tasks, v_error, v_cycle_error,
                 v_expected_runtime, v_cycle_error_2>>

\* the call returns verdict: it is kept as the result of the first or of
\* the second call
D_Returns(verdict) ==
  IF v_pc = "roots"
  THEN /\ v_cycle_error' = verdict
       /\ v_pc' = "detect again"
       /\ UNCHANGED v_cycle_error_2
  ELSE /\ v_cycle_error_2' = verdict
       /\ v_pc' = "detected twice"
       /\ UNCHANGED v_cycle_error

\* lines 94-97: one iteration of the for loop, on the sets as they are
D_Root ==
  /\ v_pc \in {"roots", "roots again"}
  /\ v_root <= Len(v_tasks)
  /\ IF v_tasks[v_root].name \in v_visited
     THEN /\ v_root' = v_root + 1
          /\ UNCHANGED <<v_pc, v_visited, v_rec_stack, v_cycle_error,
                         v_cycle_error_2>>
     ELSE LET r == dfs(v_tasks, v_tasks[v_root],
                       [ret |-> "False", visited |-> v_visited,
                        rec_stack |-> v_rec_stack])
          IN /\ v_visited' = r.visited
             /\ v_rec_stack' = r.rec_stack
             /\ IF r.ret = "True"
                THEN D_Returns(<<"Dependency cycle detected">>)
                       /\ UNCHANGED v_root
                ELSE IF r.ret = "StopIteration"
                THEN D_Returns(<<"StopIteration">>) /\ UNCHANGED v_root
                ELSE /\ v_root' = v_root + 1
                     /\ UNCHANGED <<v_pc, v_cycle_error, v_cycle_error_2>>
  /\ UNCHANGED <<r_vars, v_input, v_tasks, v_error, v_expected_runtime>>

\* line 98: the for loop is over
D_Return ==
  /\ v_pc \in {"roots", "roots again"}
  /\ v_root > Len(v_tasks)
  /\ D_Returns(None)
  /\ UNCHANGED <<r_vars, v_input, v_tasks, v_error, v_expected_runtime,
                 v_visited, v_rec_stack, v_root>>

DetectTwiceNext == V_ParseInput \/ D_Enter \/ D_Root \/ D_Return


(***************************************************************************)
(* run_mode, lines 164-216.                                                *)
(***************************************************************************)
RunLocals ==
  /\ pc = "start"
  /\ tasks = None
  /\ error = None
  /\ cycle_error = None
  /\ expected_runtime = None
  /\ completed = {}
  /\ running = {}
  /\ start_times = {}
  /\ actual_durations = {}
  /\ outputs = << >>
  /\ futures = << >>
  /\ future_state = << >>
  /\ done = << >>
  /\ submits = << >>

\* run_mode is not called
RunIdle ==
  /\ input = << >>
  /\ pc = "idle"
  /\ tasks = None
  /\ error = None
  /\ cycle_error = None
  /\ expected_runtime = None
  /\ completed = {}
  /\ running = {}
  /\ start_times = {}
  /\ actual_durations = {}
  /\ outputs = << >>
  /\ futures = << >>
  /\ future_state = << >>
  /\ done = << >>
  /\ submits = << >>

RunInit == input \in RunInputs(MaxTasks, MaxEdges) /\ RunLocals

TaskOf(name) == NextTask(tasks, name)

\* the two states of a submitted future that future.done() tells apart
Pending == "PENDING"
Finished == "FINISHED"

Submits(name) == IF name \in DOMAIN submits THEN submits[name] ELSE 0

\* Ready as it would be if one completed dependency were enough
Ready_any_dependency(task, completed_, running_) ==
  /\ task.name \notin completed_
  /\ task.name \notin running_
  /\ Deps(task) = {} \/ \E dep \in Deps(task) : dep \in completed_

\* Ready as it would be without the test of the running set
Ready_ignores_running(task, completed_, running_) ==
  /\ task.name \notin completed_
  /\ \A dep \in Deps(task) : dep \in completed_

\* Ready as it would be without the test of the dependencies
Ready_ignores_dependencies(task, completed_, running_) ==
  /\ task.name \notin completed_
  /\ task.name \notin running_

\* Ready as it would be if only the first listed dependency were tested
Ready_first_dependency_only(task, completed_, running_) ==
  /\ task.name \notin completed_
  /\ task.name \notin running_
  /\ Deps(task) = {} \/ \E k \in 1..Len(task.dependencies) :
                          /\ task.dependencies[k] # ""
                          /\ \A l \in 1..(k - 1) : task.dependencies[l] = ""
                          /\ task.dependencies[k] \in completed_

\* lines 186-187: the test of the readiness scan
Ready(task, completed_, running_) ==
  /\ task.name \notin completed_
  /\ task.name \notin running_
  /\ \A dep \in Deps(task) : dep \in completed_

\* lines 165-180
Start ==
  /\ pc = "start"
  /\ LET r == parse_input(input) IN
     IF r[2] # None
     THEN /\ error' = r[2]
          /\ pc' = "invalid"
          /\ UNCHANGED <<tasks, cycle_error, expected_runtime>>
     ELSE LET c == detect_cycles(r[1]) IN
          /\ tasks' = r[1]
          /\ error' = None
          /\ cycle_error' = c
          /\ IF c = <<"StopIteration">>
             THEN pc' = "crashed" /\ UNCHANGED expected_runtime
             ELSE IF c # None
             THEN pc' = "invalid" /\ UNCHANGED expected_runtime
             ELSE LET e == calculate_expected_runtime(r[1]) IN
                  IF e.exc # None
                  THEN pc' = "crashed" /\ expected_runtime' = e.exc
                  ELSE pc' = "loop" /\ expected_runtime' = e.value
  /\ UNCHANGED <<v_vars, input, completed, running, start_times, actual_durations,
                 outputs, futures, future_state, done, submits>>

\* scan as it would be if a pass submitted one task and stopped
RECURSIVE scan_first_ready_only(_, _)
scan_first_ready_only(i, running_) ==
  IF i > Len(tasks) THEN << >>
  ELSE IF Ready(tasks[i], completed, running_) THEN <<tasks[i].name>>
       ELSE scan_first_ready_only(i + 1, running_)

\* the for loop of lines 185-191 from the i-th task on: the names it submits
RECURSIVE scan(_, _)
scan(i, running_) ==
  IF i > Len(tasks) THEN << >>
  ELSE IF Ready(tasks[i], completed, running_)
       THEN <<tasks[i].name>> \o scan(i + 1, running_ \cup {tasks[i].name})
       ELSE scan(i + 1, running_)

\* lines 184-191: the while test holds, one readiness scan
ReadinessScan ==
  /\ pc = "loop"
  /\ Cardinality(completed) < Len(tasks)
  /\ LET new == scan(1, running) IN
     /\ running' = running \cup Range(new)
     /\ start_times' = start_times \cup Range(new)
     /\ futures' = futures \o SelectSeq(new, LAMBDA n : n \notin Range(futures))
     /\ future_state' = [n \in DOMAIN future_state \cup Range(new) |->
                           IF n \in Range(new) THEN Pending ELSE future_state[n]]
     /\ submits' = [n \in DOMAIN submits \cup Range(new) |->
                      IF n \in Range(new) THEN Submits(n) + 1 ELSE submits[n]]
  /\ pc' = "poll"
  /\ UNCHANGED <<v_vars, input, tasks, error, cycle_error, expected_runtime, completed,
                 actual_durations, outputs, done>>

\* line 184: the while test fails, the with block is left
LoopExit ==
  /\ pc = "loop"
  /\ ~(Cardinality(completed) < Len(tasks))
  /\ pc' = "exit"
  /\ UNCHANGED <<v_vars, input, tasks, error, cycle_error, expected_runtime, completed,
                 running, start_times, actual_durations, outputs, futures,
                 future_state, done, submits>>

\* line 194: the names whose future is done, in the key order of futures
CompletionSnapshot ==
  /\ pc = "poll"
  /\ LET d == SelectSeq(futures, LAMBDA n : future_state[n] # Pending) IN
     /\ done' = d
     /\ pc' = IF d = << >> THEN "loop" ELSE "process"
  /\ UNCHANGED <<v_vars, input, tasks, error, cycle_error, expected_runtime, completed,
                 running, start_times, actual_durations, outputs, futures,
                 future_state, submits>>

\* SkipTargets as it would be if the cascade stopped at the first dependent
SkipTargets_first_only(name, completed_) ==
  LET all == SelectSeq(tasks, LAMBDA t : name \in Range(t.dependencies)
                                         /\ t.name \notin completed_)
  IN IF all = << >> THEN << >> ELSE <<Head(all)>>

\* SkipTargets as it would be without the test of t.name not in completed
SkipTargets_overwrites_terminal(name, completed_) ==
  SelectSeq(tasks, LAMBDA t : name \in Range(t.dependencies))

\* lines 205-206: the tasks the cascade of a failure of name skips, in task order
SkipTargets(name, completed_) ==
  SelectSeq(tasks, LAMBDA t : name \in Range(t.dependencies)
                              /\ t.name \notin completed_)

\* lines 195-209: one iteration of the for loop over done
ProcessDone ==
  /\ pc = "process"
  /\ done # << >>
  /\ \E res \in execute_task(TaskOf(Head(done))) :
     LET name == Head(done)
         skip == SkipTargets(name, completed \cup {name})
         skipped == {skip[i].name : i \in 1..Len(skip)}
     IN
     /\ futures' = SelectSeq(futures, LAMBDA n : n # name)
     /\ future_state' = [n \in DOMAIN future_state \ {name} |-> future_state[n]]
     /\ IF res.exc # None
        THEN \* futures.pop(name).result() re-raises what the worker raised
             /\ pc' = "aborted"
             /\ UNCHANGED <<running, completed, actual_durations, outputs, done>>
        ELSE /\ running' = running \ {name}
             /\ actual_durations' = actual_durations \cup {name}
             /\ completed' = completed \cup {name}
                               \cup (IF res.success THEN {} ELSE skipped)
             /\ outputs' =
                  [n \in DOMAIN outputs \cup {name}
                           \cup (IF res.success THEN {} ELSE skipped) |->
                     IF ~res.success /\ n \in skipped
                     THEN <<"Skipped due to failure in", name>>
                     ELSE IF n = name THEN res.output
                     ELSE outputs[n]]
             /\ done' = Tail(done)
             /\ pc' = IF Tail(done) = << >> THEN "loop" ELSE "process"
  /\ UNCHANGED <<v_vars, input, tasks, error, cycle_error, expected_runtime,
                 start_times, submits>>

\* WorkerFinish as it would be if the worker recorded its own completion
WorkerFinish_writes_records(name) ==
  /\ name \in DOMAIN future_state
  /\ future_state[name] = Pending
  /\ future_state' = [future_state EXCEPT ![name] = Finished]
  /\ running' = running \ {name}
  /\ completed' = completed \cup {name}
  /\ UNCHANGED <<v_vars, input, pc, tasks, error, cycle_error, expected_runtime,
                 start_times, actual_durations, outputs, futures, done, submits>>

\* a worker thread of the pool returns from (or raises out of) execute_task
\* for the task of that name; the pool's worker limit only delays this
WorkerFinish(name) ==
  /\ name \in DOMAIN future_state
  /\ future_state[name] = Pending
  /\ future_state' = [future_state EXCEPT ![name] = Finished]
  /\ UNCHANGED <<v_vars, input, pc, tasks, error, cycle_error, expected_runtime,
                 completed, running, start_times, actual_durations, outputs,
                 futures, done, submits>>

Next ==
  \/ Start
  \/ ReadinessScan
  \/ LoopExit
  \/ CompletionSnapshot
  \/ ProcessDone
  \/ \E name \in Range(NamePool) : WorkerFinish(name)

Init == RunInit /\ ValidateIdle

FnInit == ValidateInit /\ RunIdle

Spec == Init /\ [][Next]_vars

\* The coordinator thread keeps running, and a call of execute_task ends:
\* subprocess.run is bounded by timeout = duration + 10 (line 134).  As a
\* task is submitted at most once, fairness of the workers as a whole makes
\* every pending call end.
FairSpec ==
  /\ Spec
  /\ WF_vars(Start \/ ReadinessScan \/ LoopExit \/ CompletionSnapshot \/ ProcessDone)
  /\ WF_vars(\E name \in Range(NamePool) : WorkerFinish(name))

ValidateSpec == FnInit /\ [][ValidateNext]_vars

DetectTwiceSpec == FnInit /\ [][DetectTwiceNext]_vars

\* main, lines 226-228: the flags name neither mode or both, no mode is called
NoMode == ValidateIdle /\ RunIdle

\* main, lines 219-233: one invocation runs one of the two modes or none
MainInit == Init \/ FnInit \/ NoMode

MainNext == Next \/ ValidateNext

MainSpec == MainInit /\ [][MainNext]_vars

(***************************************************************************)
(* Reference definitions the properties compare the code against.          *)
(***************************************************************************)
\* the dependency relation of a task list: <<task, dependency>>
DepEdges(ts) ==
  UNION {{<<ts[i].name, d>> : d \in Deps(ts[i])} : i \in 1..Len(ts)}

\* pairs joined by a path of at least one edge
RECURSIVE Paths(_, _)
Paths(E, R) ==
  LET next == R \cup {<<x[1][1], x[2][2]>> : x \in {y \in R \X E : y[1][2] = y[2][1]}}
  IN IF next = R THEN R ELSE Paths(E, next)

Reaches(ts) == Paths(DepEdges(ts), DepEdges(ts))

HasCycle(ts) == \E n \in TaskNames(ts) : <<n, n>> \in Reaches(ts)

\* the longest sum of durations along a dependency chain that ends in name
RECURSIVE ChainTo(_, _)
ChainTo(ts, name) ==
  LET t == NextTask(ts, name)
  IN t.duration + (IF Deps(t) = {} THEN 0
                   ELSE MaxOf({ChainTo(ts, d) : d \in Deps(t)}))

LongestChain(ts) ==
  IF Len(ts) = 0 THEN 0 ELSE MaxOf({ChainTo(ts, n) : n \in TaskNames(ts)})

(***************************************************************************)
(* Properties of validate_mode (checked under ValidateSpec).               *)
(***************************************************************************)
\* detect_cycles has returned on the parsed tasks
V_Detected == v_pc \in {"runtime", "valid", "crashed"}
                \/ (v_pc = "invalid" /\ v_error = None)

\* C8: for every acyclic task list with resolvable dependencies, in whatever
\* order the tasks are listed, calculate_expected_runtime returns the longest
\* sum of durations along any dependency chain.
C8_RuntimeIsLongestChain ==
  (v_pc \in {"valid", "crashed"}) =>
     /\ v_pc = "valid"
     /\ v_expected_runtime = LongestChain(v_tasks)

\* C9: on a task list whose dependency names all resolve, detect_cycles
\* reports "Dependency cycle detected" exactly when the dependency relation
\* has a cycle, and otherwise returns None.
C9_CycleIffDetected ==
  V_Detected =>
     /\ v_cycle_error \in {None, <<"Dependency cycle detected">>}
     /\ (v_cycle_error = <<"Dependency cycle detected">>) <=> HasCycle(v_tasks)

\* C9 witness: a cycle is reported although the first task has no dependency,
\* so the cycle lies in a component the first root does not reach.
C9_Witness ==
  /\ v_pc = "invalid"
  /\ v_error = None
  /\ v_cycle_error = <<"Dependency cycle detected">>
  /\ Len(v_tasks) >= 2
  /\ Deps(v_tasks[1]) = {}

\* C14: two calls of detect_cycles in succession on the same task list return
\* the same verdict, which is the verdict of detect_cycles on that list, and
\* the second call starts its traversal on empty visited and on-stack sets
\* whatever the first call left in them.
C14_DetectTwiceSameVerdict ==
  /\ v_pc = "detected twice" =>
        /\ v_cycle_error_2 = v_cycle_error
        /\ v_cycle_error = detect_cycles(v_tasks)
  /\ (v_pc = "roots again" /\ v_root = 1) =>
        /\ v_visited = {}
        /\ v_rec_stack = {}

\* C14 witness: both calls have reported a cycle that every task of the list
\* lies on, so the first call had visited every task and left all of them
\* on its stack when it returned.
C14_Witness ==
  /\ v_pc = "detected twice"
  /\ v_cycle_error = <<"Dependency cycle detected">>
  /\ v_cycle_error_2 = <<"Dependency cycle detected">>
  /\ Len(v_tasks) >= 2
  /\ v_visited = TaskNames(v_tasks)
  /\ v_rec_stack = TaskNames(v_tasks)

(***************************************************************************)
(* Properties of run_mode (checked under Spec, liveness under FairSpec).   *)
(***************************************************************************)
Names == TaskNames(tasks)

SkipText == "Skipped due to failure in"

Succeeded(n) == n \in completed /\ n \in DOMAIN outputs /\ outputs[n] = <<"stdout">>
Failed(n) == n \in completed /\ n \in DOMAIN outputs /\ outputs[n][1] = "failure of"
Skipped(n) == n \in completed /\ n \in DOMAIN outputs /\ outputs[n][1] = SkipText

\* outputs.get(n)
OutputOf(n) == IF n \in DOMAIN outputs THEN outputs[n] ELSE None

\* the input has a structural error or a dependency cycle
StructuralError(lines) ==
  \/ \E i \in 1..Len(lines) :
       \/ lines[i].name = ""
       \/ lines[i].duration <= 0
       \/ lines[i].task_type \notin {"resolve", "traceroute", "iperf3"}
       \/ \E d \in Deps(lines[i]) : d \notin TaskNames(lines)
  \/ \E i, j \in 1..Len(lines) : i # j /\ lines[i].name = lines[j].name

InputInvalid(lines) == StructuralError(lines) \/ HasCycle(lines)

\* the run is over: the loop was left, or an exception left run_mode
RunOver == pc \in {"exit", "aborted", "crashed"}

\* C1: a task is submitted (becomes Running) only in a state where every one
\* of its direct dependencies is already in the completed set.
C1_StartsAfterDependencies ==
  [][\A n \in Range(NamePool) :
       (n \in running' \ running \/ Submits(n)' > Submits(n)) =>
          \A d \in Deps(TaskOf(n)) : d \in completed]_vars

\* C1 witness: a task with a dependency is Running.
C1_Witness ==
  \E n \in running : Deps(TaskOf(n)) # {} /\ Deps(TaskOf(n)) \subseteq completed

\* C2: in the step that records X as Failed, every task that lists X as a
\* direct dependency and is not yet terminal becomes Skipped with an output
\* naming X, and a Skipped task is never submitted, in that step or later.
C2_FailureSkipsDependents ==
  [][/\ \A x \in Range(NamePool) :
          (x \notin completed /\ Failed(x)') =>
             \A i \in 1..Len(tasks) :
               (x \in Deps(tasks[i]) /\ tasks[i].name \notin completed) =>
                  /\ tasks[i].name \in completed'
                  /\ outputs'[tasks[i].name] = <<SkipText, x>>
                  /\ tasks[i].name \notin running'
                  /\ Submits(tasks[i].name)' = 0
     /\ \A n \in Range(NamePool) :
          Skipped(n) => Submits(n)' = Submits(n) /\ n \notin running']_vars

\* C2 witness: the run is over and two tasks were skipped by the same failure.
C2_Witness ==
  /\ pc = "exit"
  /\ \E x \in Names : \E n, m \in Names :
       /\ n # m
       /\ Failed(x)
       /\ OutputOf(n) = <<SkipText, x>>
       /\ OutputOf(m) = <<SkipText, x>>

\* C4: every task is submitted to the executor at most once, and a Skipped
\* task not at all.
C4_SubmittedAtMostOnce ==
  /\ \A n \in DOMAIN submits : submits[n] <= 1
  /\ \A n \in DOMAIN outputs : Skipped(n) => Submits(n) = 0

\* C4 witness: the run is over after a task finished, a dependent of it ran
\* in a later scan and another task was skipped.
C4_Witness ==
  /\ pc = "exit"
  /\ \E n, m, k \in Names :
       /\ Succeeded(n) /\ n \in Deps(TaskOf(m)) /\ Failed(m) /\ Skipped(k)
       /\ Submits(n) = 1 /\ Submits(m) = 1 /\ Submits(k) = 0

\* C7: a Running task is never in the completed set, and the step that ends
\* its run records its own Succeeded/Failed outcome, never a skip.
C7_RunningNeverSkipped ==
  [][/\ running' \cap completed' = {}
     /\ \A n \in running :
          \/ n \in running' /\ n \notin completed'
          \/ /\ n \notin running'
             /\ n \in completed'
             /\ outputs'[n] \in {<<"stdout">>, <<"failure of", n>>}]_vars

\* C7 witness: a failure has skipped a dependent while another task is Running.
C7_Witness ==
  \E x, n, r \in Names :
    /\ Failed(x)
    /\ OutputOf(n) = <<SkipText, x>>
    /\ r \in running

\* C10: on an input with a structural error or a dependency cycle no task is
\* ever submitted or Running, and run_mode returns from its validation.
C10_InvalidInputRunsNothing ==
  InputInvalid(input) =>
     /\ pc \in {"start", "invalid"}
     /\ running = {}
     /\ submits = << >>

\* C10 witness: run_mode has returned on a cyclic input that holds a task
\* without dependencies.
C10_Witness ==
  /\ pc = "invalid"
  /\ cycle_error = <<"Dependency cycle detected">>
  /\ \E i \in 1..Len(input) : Deps(input[i]) = {}

\* C3: on a validated graph the run ends only by leaving the loop with every
\* task terminal, and while the loop runs with a non-terminal task, some task
\* is Running or can be submitted by the next scan.
C3_LoopTerminates ==
  ~InputInvalid(input) =>
     /\ pc \notin {"crashed", "aborted"}
     /\ pc = "exit" => completed = Names
     /\ (pc \in {"loop", "poll", "process"} /\ completed # Names) =>
           \/ running # {}
           \/ \E i \in 1..Len(tasks) : Ready(tasks[i], completed, running)

\* C5: a terminal task keeps its state and output, and when the loop is
\* left every task is terminal and has an output.
C5_TerminalOnce ==
  [][/\ \A n \in completed : n \in completed' /\ outputs'[n] = outputs[n]
     /\ pc' \in {"exit", "aborted"} =>
          \A n \in TaskNames(tasks') : n \in completed' /\ n \in DOMAIN outputs']_vars

\* C6: a task is Skipped only if one of its direct dependencies Failed, and
\* at the end of a run on a validated graph every task none of whose
\* ancestors Failed was submitted and is Succeeded or Failed.
C6_FailuresContained ==
  /\ \A n \in DOMAIN outputs :
       Skipped(n) => \E d \in Deps(TaskOf(n)) : Failed(d)
  /\ (RunOver /\ ~InputInvalid(input)) =>
       \A i \in 1..Len(input) :
         (\A a \in {b \in TaskNames(input) : <<input[i].name, b>> \in Reaches(input)} :
             ~Failed(a)) =>
            /\ Submits(input[i].name) = 1
            /\ Succeeded(input[i].name) \/ Failed(input[i].name)

\* C11: every call of execute_task the executor holds ends with a
\* (success, output) pair, a failure with a message as output, and never with
\* an exception, so future.result() never takes the coordinator out of the
\* dispatch loop.
C11_ExecuteTaskNeverRaises ==
  /\ pc # "aborted"
  /\ \A n \in Range(futures) :
       \A res \in execute_task(TaskOf(n)) :
         /\ res.exc = None
         /\ ~res.success => res.output # None

(***************************************************************************)
(* Properties of both modes (checked under MainSpec).                      *)
(***************************************************************************)
\* every line passes the field tests of parse_input
FieldsValid(lines) ==
  /\ \A i \in 1..Len(lines) :
       /\ lines[i].name # ""
       /\ lines[i].duration > 0
       /\ lines[i].task_type \in {"resolve", "traceroute", "iperf3"}
  /\ \A i, j \in 1..Len(lines) : i # j => lines[i].name # lines[j].name

\* the dependency entries of line i that name no line
Unresolved(lines, i) ==
  {k \in 1..Len(lines[i].dependencies) :
     lines[i].dependencies[k] \notin TaskNames(lines) \cup {""}}

HasUnresolved(lines) == \E i \in 1..Len(lines) : Unresolved(lines, i) # {}

\* the error naming the first task with such an entry and its first such entry
FirstUnresolvedError(lines) ==
  LET i == CHOOSE i \in 1..Len(lines) :
             /\ Unresolved(lines, i) # {}
             /\ \A j \in 1..(i - 1) : Unresolved(lines, j) = {}
      k == CHOOSE k \in Unresolved(lines, i) : \A l \in Unresolved(lines, i) : k <= l
  IN <<"Unknown dependency", lines[i].name, lines[i].dependencies[k]>>

\* C12: in both modes, a task list with a dependency name that is no task
\* name ends validation with the "Unknown dependency" error of the first
\* offending task, and detect_cycles is never called on such a list: no
\* verdict of it is recorded and its by-name lookup never fails.
C12_ExistenceBeforeCycles ==
  /\ (FieldsValid(v_input) /\ HasUnresolved(v_input)) =>
        /\ v_pc \in {"parse", "invalid"}
        /\ v_pc = "invalid" => v_error = FirstUnresolvedError(v_input)
        /\ v_cycle_error = None
  /\ (FieldsValid(input) /\ HasUnresolved(input)) =>
        /\ pc \in {"start", "invalid"}
        /\ pc = "invalid" => error = FirstUnresolvedError(input)
        /\ cycle_error = None
  /\ v_cycle_error # <<"StopIteration">>
  /\ cycle_error # <<"StopIteration">>

\* C12 witness: validate_mode has reported an unknown dependency on a list
\* that also holds a dependency cycle and in which a later task names
\* another unknown dependency.
C12_Witness ==
  /\ v_pc = "invalid"
  /\ v_error # None
  /\ v_error[1] = "Unknown dependency"
  /\ HasCycle(v_input)
  /\ \E i, j \in 1..Len(v_input) :
       /\ i < j
       /\ v_error[2] = v_input[i].name
       /\ \E d \in Deps(v_input[j]) :
            d \notin TaskNames(v_input) /\ d # v_error[3]

\* C13: on the empty task list validation succeeds with an expected runtime
\* of 0 in both modes, and run_mode leaves its loop at the first test of the
\* while condition: no readiness scan, no completion scan, and no task is
\* submitted, finished or skipped.
C13_EmptyList ==
  /\ (v_input = << >> /\ v_pc # "idle") =>
        /\ v_pc \in {"parse", "detect", "runtime", "valid"}
        /\ v_error = None
        /\ v_cycle_error = None
        /\ v_pc = "valid" => v_expected_runtime = 0
  /\ (input = << >> /\ pc # "idle") =>
        /\ pc \in {"start", "loop", "exit"}
        /\ error = None
        /\ cycle_error = None
        /\ pc # "start" => expected_runtime = 0
        /\ submits = << >>
        /\ futures = << >>
        /\ running = {}
        /\ completed = {}
        /\ start_times = {}
        /\ actual_durations = {}
        /\ outputs = << >>

\* C13 witness: run_mode has left the loop on the empty list.
C13_Witness ==
  /\ input = << >>
  /\ pc = "exit"
  /\ expected_runtime = 0
  /\ submits = << >>

\* C15: a task Z whose only dependency Y was Skipped is not Skipped itself;
\* it is submitted by a later readiness scan and, when the run is over, is
\* Succeeded or Failed by its own outcome.
C15_CascadeIsOneHop ==
  \A i \in 1..Len(tasks) : \A y \in Names :
    (Deps(tasks[i]) = {y} /\ Skipped(y)) =>
       /\ ~Skipped(tasks[i].name)
       /\ RunOver =>
            /\ Submits(tasks[i].name) = 1
            /\ Succeeded(tasks[i].name) \/ Failed(tasks[i].name)

\* C16: a readiness scan submits and marks Running every task that is neither
\* terminal nor Running and whose dependencies are all terminal, so at its
\* end no ready task is left waiting, and it observes no completion.
C16_ScanSubmitsEveryReadyTask ==
  [][(pc = "loop" /\ pc' = "poll") =>
       /\ completed' = completed
       /\ outputs' = outputs
       /\ \A i \in 1..Len(tasks) :
            (/\ tasks[i].name \notin completed
             /\ tasks[i].name \notin running
             /\ Deps(tasks[i]) \subseteq completed) =>
               /\ tasks[i].name \in running'
               /\ tasks[i].name \in start_times'
               /\ tasks[i].name \in Range(futures')
               /\ future_state'[tasks[i].name] = Pending
               /\ Submits(tasks[i].name)' = Submits(tasks[i].name) + 1
       /\ \A i \in 1..Len(tasks) :
            (tasks[i].name \notin completed' /\ Deps(tasks[i]) \subseteq completed')
               => tasks[i].name \in running']_vars

\* C16 witness: after a scan two tasks with the same single dependency are
\* Running together, neither call finished.
C16_Witness ==
  /\ pc = "poll"
  /\ \E a, n, m \in Names :
       /\ n # m
       /\ Deps(TaskOf(n)) = {a}
       /\ Deps(TaskOf(m)) = {a}
       /\ Succeeded(a)
       /\ {n, m} \subseteq running
       /\ future_state[n] = Pending
       /\ future_state[m] = Pending

\* C17: a task becomes Skipped in the step that records the failure of one
\* of its direct dependencies, none of which had Failed before, with an
\* output naming that dependency; the output of a Skipped task never changes
\* afterwards, whatever else fails; and a task that was submitted never
\* carries a skip output.
C17_SkipNamesFirstFailedDependency ==
  [][\A n \in Range(NamePool) :
       /\ (~Skipped(n) /\ Skipped(n)') =>
             /\ \A e \in Deps(TaskOf(n)) : ~Failed(e)
             /\ \E d \in Deps(TaskOf(n)) :
                  /\ outputs'[n] = <<SkipText, d>>
                  /\ d \notin completed
                  /\ Failed(d)'
       /\ Skipped(n) =>
             /\ outputs'[n] = outputs[n]
             /\ \E d \in Deps(TaskOf(n)) : outputs[n] = <<SkipText, d>> /\ Failed(d)
       /\ Submits(n)' >= 1 => ~Skipped(n)']_vars

\* C17 witness: two dependencies of a Skipped task have Failed, and its
\* output names the one listed second, whose failure was processed first.
C17_Witness ==
  \E i \in 1..Len(tasks) :
    /\ Len(tasks[i].dependencies) = 2
    /\ Failed(tasks[i].dependencies[1])
    /\ Failed(tasks[i].dependencies[2])
    /\ tasks[i].dependencies[1] # tasks[i].dependencies[2]
    /\ OutputOf(tasks[i].name) = <<SkipText, tasks[i].dependencies[2]>>

\* the execution records of run_mode
Records == <<completed, running, futures, start_times, actual_durations, outputs>>

\* C18: a step in which a call of execute_task ends changes none of the
\* execution records; they change only in steps of the coordinator, and a
\* task gets its Succeeded/Failed record only when the coordinator takes it
\* from the list of finished futures.
C18_CoordinatorIsOnlyWriter ==
  [][/\ (\E n \in DOMAIN future_state :
           /\ future_state[n] = Pending
           /\ n \in DOMAIN future_state'
           /\ future_state'[n] = Finished) => Records' = Records
     /\ Records' # Records => ((pc = "loop" /\ pc' = "poll") \/ pc = "process")
     /\ \A n \in Range(NamePool) :
          (n \notin completed /\ (Succeeded(n) \/ Failed(n))') =>
             /\ pc = "process"
             /\ n = Head(done)
             /\ future_state[n] = Finished]_vars

\* C18 witness: a call has ended and the coordinator has not yet retrieved
\* its result: the task is still Running, not completed, without output.
C18_Witness ==
  \E n \in DOMAIN future_state :
    /\ future_state[n] = Finished
    /\ n \in running
    /\ n \notin completed
    /\ n \notin DOMAIN outputs
    /\ n \notin actual_durations
    /\ pc = "loop"

\* C19: the ordering covers direct dependencies only.  Whenever a task Z is
\* Running while a transitive ancestor B of it is Running, B is no direct
\* dependency of Z, every direct dependency of Z is terminal, and a Skipped
\* task lies between them: an ancestor of Z that has B as an ancestor.
C19_OrderingIsDirectOnly ==
  \A z, b \in running :
    <<z, b>> \in Reaches(tasks) =>
       /\ b \notin Deps(TaskOf(z))
       /\ Deps(TaskOf(z)) \subseteq completed
       /\ \E y \in Names :
            /\ Skipped(y)
            /\ <<z, y>> \in Reaches(tasks)
            /\ <<y, b>> \in Reaches(tasks)

\* C19 witness: Z depends on Y, Y depends on A and B, A has Failed, Y was
\* Skipped at once, and Z is Running while B is still Running.
C19_Witness ==
  \E a, b, y, z \in Names :
    /\ Deps(TaskOf(z)) = {y}
    /\ Deps(TaskOf(y)) = {a, b}
    /\ a # b
    /\ Failed(a)
    /\ OutputOf(y) = <<SkipText, a>>
    /\ b \in running
    /\ z \in running

====
